---- MODULE Spec2Model ----
(***************************************************************************)
(* Model of pytype's AbstractMatcher (pytype/matcher.py): one-way          *)
(* unification of abstract values against formal types.                    *)
(*                                                                         *)
(* The matcher is stateless; every operation is a function of its          *)
(* arguments.  The state of the model is the last call made on the matcher *)
(* (operation, arguments) together with what the call returned.            *)
(*                                                                         *)
(* Representation                                                          *)
(*   formal types / abstract values : records with a "kind" field          *)
(*   cfg.Variable  : [b |-> sequence of values (bindings' data),           *)
(*                    pick |-> index of the binding the view pins,         *)
(*                             0 when the variable is not in the view]     *)
(*   cfg.Binding   : a Variable whose pick is the binding                  *)
(*   substitution  : [st |-> "ok", m |-> function name -> set of values]   *)
(*                   Python's None is [st |-> "none"], an exception that   *)
(*                   leaves the call is [st |-> "raise", err |-> name]     *)
(*                                                                         *)
(* The second part models two pieces of the declared-type AST              *)
(* (pytype/pytd/pytd.py): the construction, equality and hash of UnionType *)
(* and the Lookup of TypeDeclUnit and Class with its cache, which is the   *)
(* one piece of state that outlives a call; node is the AST node Lookup is *)
(* called on, the cache included.                                          *)
(***************************************************************************)
EXTENDS Integers, Sequences, FiniteSets, TLC

VARIABLES op, args, ret, node

vars == <<op, args, ret, node>>

(***************************************************************************)
(* Bounds                                                                  *)
(***************************************************************************)
MaxTuple == 2      \* longest literal tuple / most tuple slots
MaxArgs == 2       \* most formal parameters of one compute_subst call
MaxMro == 3        \* longest MRO drawn for the direct MRO search

(***************************************************************************)
(* Results                                                                 *)
(***************************************************************************)
EmptyMap == [n \in {} |-> {}]

Ok(m) == [st |-> "ok", m |-> m, err |-> ""]

NoneR == [st |-> "none", m |-> EmptyMap, err |-> ""]

Raise(e) == [st |-> "raise", m |-> EmptyMap, err |-> e]

\* dict.copy() followed by d[k] = v
Put(m, k, v) == [n \in (DOMAIN m) \cup {k} |-> IF n = k THEN v ELSE m[n]]

(***************************************************************************)
(* isinstance tests of abstract.py, on the kind of a record                *)
(***************************************************************************)
AMBIGUOUS == {"Unknown", "Unsolvable"}

AMBIGUOUS_OR_EMPTY == AMBIGUOUS \cup {"Empty"}

\* abstract.ParameterizedClass and its subclass abstract.TupleClass
IsParameterizedClass(t) == t.kind \in {"ParameterizedClass", "TupleClass"}

\* abstract.Class: plain classes and parameterized ones
IsClass(t) == t.kind = "Class" \/ IsParameterizedClass(t)

\* abstract.SimpleAbstractValue: instances, and classes and modules as values
IsSimpleAbstractValue(v) ==
  v.kind \in {"Instance", "Tuple", "ClassValue", "Module"}

full_name(t) == IF "name" \in DOMAIN t THEN t.name ELSE t.kind

\* template of a parameterized class: the template of its base class
template(t) == t.template

\* SimpleAbstractValue.get_type_parameter: the variable stored under the
\* name, an empty variable when there is none; an ambiguous value answers
\* with a new variable holding one Unsolvable that no view contains.
get_type_parameter(instance, name) ==
  IF instance.kind \in AMBIGUOUS_OR_EMPTY
    THEN [b |-> <<[kind |-> "Unsolvable"]>>, pick |-> 0]
  ELSE IF "tp" \in DOMAIN instance /\ name \in DOMAIN instance.tp
    THEN instance.tp[name]
  ELSE [b |-> <<>>, pick |-> 0]

\* get_type_key: structural identity of a value, not its identity as object:
\* the classes of the value and, per type parameter, the type keys of the
\* parameter's bindings; the kind of value where there is neither
RECURSIVE get_type_key(_)
get_type_key(v) ==
  LET classes == IF "cls" \in DOMAIN v
                   THEN {v.cls[i] : i \in 1..Len(v.cls)} ELSE {}
      names == IF "tp" \in DOMAIN v THEN DOMAIN v.tp ELSE {}
  IN IF classes = {} /\ names = {} THEN [key_kind |-> v.kind]
     ELSE [key_cls |-> classes,
           key_tp |-> [n \in names |->
                         {get_type_key(v.tp[n].b[j]) :
                            j \in 1..Len(v.tp[n].b)}]]

\* pep484.COMPAT_MAP, prefixed with "__builtin__."
compatible_builtins ==
  [k \in {"__builtin__.int"} |-> "__builtin__.long"]

(***************************************************************************)
(* The classes of the program under analysis                               *)
(***************************************************************************)
Cls(n) == [kind |-> "Class", name |-> n]

AmbiguousBase(k) == [kind |-> k]

\* a class applied to type arguments; its template is its base class's
PCls(n, t) ==
  [kind |-> "ParameterizedClass", name |-> n, template |-> <<"T">>,
   type_parameters |-> [x \in {"T"} |-> t]]

\* Class.mro of the classes the model's instances have
MroTable ==
  [n \in {"__builtin__.object", "__builtin__.int", "__builtin__.long",
          "__builtin__.tuple", "__builtin__.list", "__builtin__.type",
          "__builtin__.dict",
          "A", "B", "C", "D", "IntList"} |->
     CASE n = "__builtin__.object" -> <<Cls(n)>>
       [] n = "B" -> <<Cls("B"), Cls("A"), Cls("__builtin__.object")>>
       [] n = "C" -> <<Cls("C"), AmbiguousBase("Unsolvable"), Cls("A"),
                       Cls("__builtin__.object")>>
       [] n = "D" -> <<Cls("D"), AmbiguousBase("Unknown"),
                       Cls("__builtin__.object")>>
       [] n = "IntList" -> <<Cls("IntList"),
                             PCls("__builtin__.list", Cls("__builtin__.int")),
                             Cls("__builtin__.object")>>
       [] OTHER -> <<Cls(n), Cls("__builtin__.object")>>]

mro(left) == IF "mro" \in DOMAIN left THEN left.mro ELSE MroTable[left.name]

\* ParameterizedClass.base_cls
base_cls(t) == Cls(t.name)

RECURSIVE _match_value_against_type(_, _, _)
RECURSIVE union_options(_, _, _, _)
RECURSIVE match_var_against_type(_, _, _)
RECURSIVE _match_type_against_type(_, _, _)
RECURSIVE left_options(_, _, _, _)
RECURSIVE _instantiate_and_match(_, _, _)
RECURSIVE new_views(_, _, _, _)
RECURSIVE _match_instance_against_type(_, _, _)
RECURSIVE left_classes(_, _, _, _)
RECURSIVE _match_instance(_, _, _, _)
RECURSIVE _match_maybe_parameterized_instance(_, _, _, _)
RECURSIVE template_params(_, _, _, _)
RECURSIVE _match_heterogeneous_tuple_instance(_, _, _, _)
RECURSIVE tuple_slots(_, _, _, _)
RECURSIVE tuple_elements(_, _, _, _)
RECURSIVE instance_slots(_, _, _, _)
RECURSIVE _match_class_and_instance_against_type(_, _, _, _)
RECURSIVE instantiate(_)

(***************************************************************************)
(* match_var_against_type, the empty variable: every type parameter among  *)
(* the right side options that the substitution lacks gets a new variable. *)
(***************************************************************************)
RECURSIVE right_side_options(_, _, _)
\* right_side_options as it would be if only the first unbound type
\* parameter were filled in
right_side_options_first_only(options, i, subst) ==
  IF i > Len(options) THEN subst
  ELSE IF options[i].kind = "TypeParameter"
    THEN IF subst.st = "none" THEN Raise("TypeError")
         ELSE IF options[i].name \notin DOMAIN subst.m
           THEN Ok(Put(subst.m, options[i].name, {}))
         ELSE right_side_options(options, i + 1, subst)
  ELSE right_side_options(options, i + 1, subst)

right_side_options(options, i, subst) ==
  IF i > Len(options) THEN subst
  ELSE IF options[i].kind = "TypeParameter"
    THEN IF subst.st = "none" THEN Raise("TypeError")
         ELSE IF options[i].name \notin DOMAIN subst.m
           THEN right_side_options(options, i + 1,
                                   Ok(Put(subst.m, options[i].name, {})))
         ELSE right_side_options(options, i + 1, subst)
  ELSE right_side_options(options, i + 1, subst)

match_var_against_type(var, other_type, subst) ==
  IF Len(var.b) > 0
    THEN IF var.pick = 0 THEN Raise("KeyError")
         ELSE _match_value_against_type(var, other_type, subst)
  ELSE right_side_options(
         IF other_type.kind = "Union" THEN other_type.options
         ELSE <<other_type>>, 1, subst)

(***************************************************************************)
(* _match_value_against_type                                               *)
(***************************************************************************)
\* the loop over the options of a union formal
union_options(value, options, i, subst) ==
  IF i > Len(options) THEN NoneR
  ELSE LET new_subst == _match_value_against_type(value, options[i], subst)
       IN IF new_subst.st # "none" THEN new_subst
          ELSE union_options(value, options, i + 1, subst)

\* new_var as it would be if a bound parameter were overwritten, not merged
new_var_overwrite(value, name, m) ==
  LET left == value.b[value.pick]
      type_key == get_type_key(left)
  IN {left}
     \cup {value.b[j] : j \in {k \in 1..Len(value.b) :
                                 k # value.pick
                                 /\ get_type_key(value.b[k]) = type_key}}

\* new_var as it would be if every other binding of the value's variable
\* were added, whatever its type key
new_var_all_bindings(value, name, m) ==
  (IF name \in DOMAIN m THEN m[name] ELSE {})
  \cup {value.b[j] : j \in 1..Len(value.b)}

\* the binding a type parameter gets: the old bindings (if any), the value,
\* and the other bindings of the value's variable with the same type key
new_var(value, name, m) ==
  LET left == value.b[value.pick]
      type_key == get_type_key(left)
  IN (IF name \in DOMAIN m THEN m[name] ELSE {})
     \cup {left}
     \cup {value.b[j] : j \in {k \in 1..Len(value.b) :
                                 k # value.pick
                                 /\ get_type_key(value.b[k]) = type_key}}

\* matches_anything as it would be if only unknown values were universal
matches_anything_value_only(left, other_type) == left.kind \in AMBIGUOUS

\* unknown types match anything, and anything matches unknown types
matches_anything(left, other_type) ==
  other_type.kind \in AMBIGUOUS \/ left.kind \in AMBIGUOUS

_match_value_against_type(value, other_type, subst) ==
  LET left == value.b[value.pick]
  IN IF IsClass(other_type)
       THEN _match_type_against_type(left, other_type, subst)
     ELSE IF other_type.kind = "Union"
       THEN union_options(value, other_type.options, 1, subst)
     ELSE IF other_type.kind = "TypeParameter"
       THEN IF subst.st = "none" THEN Raise("TypeError")
            ELSE Ok(Put(subst.m, other_type.name,
                        new_var(value, other_type.name, subst.m)))
     ELSE IF matches_anything(left, other_type) THEN subst
     ELSE IF other_type.kind = "Nothing"
       THEN _match_type_against_type(left, other_type, subst)
     ELSE NoneR

(***************************************************************************)
(* _match_type_against_type                                                *)
(***************************************************************************)
\* the loop over the options of a union value
left_options(options, i, other_type, subst) ==
  IF i > Len(options) THEN NoneR
  ELSE LET new_subst == _match_type_against_type(options[i], other_type, subst)
       IN IF new_subst.st # "none" THEN new_subst
          ELSE left_options(options, i + 1, other_type, subst)

_match_type_against_type(left, other_type, subst) ==
  IF left.kind = "Empty" /\ other_type.kind = "Nothing" THEN subst
  ELSE IF left.kind \in AMBIGUOUS_OR_EMPTY
    THEN _match_instance(other_type, left, other_type, subst)
  ELSE IF left.kind = "ClassValue"
    THEN IF full_name(other_type) = "__builtin__.type"
            /\ IsParameterizedClass(other_type)
           THEN _instantiate_and_match(left, other_type.type_parameters["T"],
                                       subst)
         ELSE IF full_name(other_type) \in
                   {"__builtin__.type", "__builtin__.object", "typing.Callable"}
           THEN subst
         ELSE IF Len(left.cls) > 0
           THEN _match_instance_against_type(left, other_type, subst)
         ELSE NoneR
  ELSE IF left.kind = "Module"
    THEN IF full_name(other_type) \in
              {"__builtin__.module", "__builtin__.object", "types.ModuleType"}
           THEN subst
         ELSE NoneR
  ELSE IF IsSimpleAbstractValue(left)
    THEN _match_instance_against_type(left, other_type, subst)
  ELSE IF left.kind = "SuperInstance"
    THEN _match_class_and_instance_against_type(
           left.super_cls, left.super_obj, other_type, subst)
  ELSE IF left.kind \in {"Function", "BoundFunction"}
    THEN IF full_name(other_type) \in {"__builtin__.object", "typing.Callable"}
           THEN subst
         ELSE NoneR
  ELSE IF left.kind = "ClassMethod"
    THEN IF full_name(other_type) \in
              {"__builtin__.classmethod", "__builtin__.object"}
           THEN subst
         ELSE NoneR
  ELSE IF left.kind = "StaticMethod"
    THEN IF full_name(other_type) \in
              {"__builtin__.staticmethod", "__builtin__.object"}
           THEN subst
         ELSE NoneR
  ELSE IF left.kind = "Nothing"
    THEN IF other_type.kind = "Nothing" THEN subst ELSE NoneR
  ELSE IF left.kind = "Union"
    THEN left_options(left.options, 1, other_type, subst)
  ELSE Raise("NotImplementedError")

(***************************************************************************)
(* _instantiate_and_match.  instantiate and get_views belong to the value  *)
(* model: instantiate(t) is the bindings of a new variable holding an      *)
(* instance of t, get_views(b) the views of such a variable, each a copy   *)
(* of the variable with one binding pinned in it and in the variables      *)
(* nested in that binding.                                                 *)
(***************************************************************************)
Var(b) == [b |-> b, pick |-> 0]

RECURSIVE instantiate_all(_, _)
instantiate_all(types, i) ==
  IF i > Len(types) THEN <<>>
  ELSE instantiate(types[i]) \o instantiate_all(types, i + 1)

instantiate(t) ==
  IF t.kind = "TupleClass"
    THEN <<[kind |-> "Tuple", cls |-> <<base_cls(t)>>, id |-> 0,
            pyval |-> [i \in 1..Len(t.slots) |-> Var(instantiate(t.slots[i]))],
            tp |-> [x \in {"T"} |-> Var(instantiate_all(t.slots, 1))]]>>
  ELSE IF t.kind = "ParameterizedClass"
    THEN <<[kind |-> "Instance", cls |-> <<base_cls(t)>>, id |-> 0,
            tp |-> [x \in {"T"} |->
                      Var(instantiate(t.type_parameters["T"]))]]>>
  ELSE IF t.kind \in {"Class", "ClassValue"}
    THEN <<[kind |-> "Instance", cls |-> <<Cls(t.name)>>, id |-> 0,
            tp |-> EmptyMap]>>
  ELSE IF t.kind = "Union" THEN instantiate_all(t.options, 1)
  ELSE IF t.kind = "TypeParameter" THEN <<[kind |-> "Unsolvable"]>>
  ELSE IF t.kind \in AMBIGUOUS THEN <<t>>
  ELSE <<>>

\* every <<a>> \o b for a in A and b in B, A-major
cross(A, B) ==
  [j \in 1..(Len(A) * Len(B)) |->
     <<A[((j - 1) \div Len(B)) + 1]>> \o B[((j - 1) % Len(B)) + 1]]

RECURSIVE get_views(_)
RECURSIVE views_from(_, _)
RECURSIVE pinned_values(_)
RECURSIVE pinned_pyvals(_, _)

var_views(var) == IF Len(var.b) = 0 THEN <<var>> ELSE get_views(var.b)

pinned_pyvals(pyval, k) ==
  IF k > Len(pyval) THEN << <<>> >>
  ELSE cross(var_views(pyval[k]), pinned_pyvals(pyval, k + 1))

\* the copies of a value with a binding pinned in each variable it holds
pinned_values(v) ==
  IF v.kind = "Tuple"
    THEN LET ps == cross(var_views(v.tp["T"]), pinned_pyvals(v.pyval, 1))
         IN [j \in 1..Len(ps) |->
               [v EXCEPT !.tp = [x \in {"T"} |-> Head(ps[j])],
                         !.pyval = Tail(ps[j])]]
  ELSE IF v.kind = "Instance" /\ "T" \in DOMAIN v.tp
    THEN LET ws == var_views(v.tp["T"])
         IN [j \in 1..Len(ws) |-> [v EXCEPT !.tp = [x \in {"T"} |-> ws[j]]]]
  ELSE <<v>>

views_from(b, i) ==
  IF i > Len(b) THEN <<>>
  ELSE LET vs == pinned_values(b[i])
       IN [j \in 1..Len(vs) |-> [b |-> [b EXCEPT ![i] = vs[j]], pick |-> i]]
          \o views_from(b, i + 1)

get_views(b) == views_from(b, 1)

\* the loop over the views of the new instance
new_views(views, i, other_type, subst) ==
  IF i > Len(views) THEN NoneR
  ELSE LET new_subst == match_var_against_type(views[i], other_type, subst)
       IN IF new_subst.st # "none" THEN new_subst
          ELSE new_views(views, i + 1, other_type, subst)

_instantiate_and_match(left, other_type, subst) ==
  new_views(get_views(instantiate(left)), 1, other_type, subst)

(***************************************************************************)
(* _match_instance_against_type                                            *)
(***************************************************************************)
\* the loop over the classes of the instance
left_classes(classes, i, args3, subst) ==
  IF i > Len(classes) THEN NoneR
  ELSE LET new_subst == _match_class_and_instance_against_type(
                          classes[i], args3[1], args3[2], subst)
       IN IF new_subst.st # "none" THEN new_subst
          ELSE left_classes(classes, i + 1, args3, subst)

_match_instance_against_type(left, other_type, subst) ==
  IF Len(left.cls) = 0 THEN Raise("AssertionError")
  ELSE left_classes(left.cls, 1, <<left, other_type>>, subst)

(***************************************************************************)
(* _match_instance and the two steps it is made of                         *)
(***************************************************************************)
_match_instance(left, instance, other_type, subst) ==
  LET tuple_subst ==
        IF left.kind = "TupleClass" \/ instance.kind = "Tuple"
           \/ other_type.kind = "TupleClass"
          THEN _match_heterogeneous_tuple_instance(
                 left, instance, other_type, subst)
        ELSE subst
  IN IF tuple_subst.st = "raise" THEN tuple_subst
     ELSE _match_maybe_parameterized_instance(
            left, instance, other_type, tuple_subst)

\* the variable of the instance that is matched for one template item, as
\* the view holds it
instance_param(left, instance, name) ==
  LET first == get_type_parameter(instance, name)
      instance_type_param == left.type_parameters[name]
  IN IF Len(first.b) = 0 /\ instance_type_param.kind = "TypeParameter"
        /\ instance_type_param.name # name
       THEN get_type_parameter(instance, instance_type_param.name)
     ELSE first

\* in_view as it would be if the view were left as it is
in_view_unchanged(param) == param

\* a variable that has bindings and is not in the view is put into a copy
\* of the view with its one binding
in_view(param) ==
  IF Len(param.b) > 0 /\ param.pick = 0 THEN [param EXCEPT !.pick = 1]
  ELSE param

\* the loop over the template; ctx is <<left, instance, other_type>>
template_params(names, i, ctx, subst) ==
  IF i > Len(names) THEN subst
  ELSE LET class_param == ctx[3].type_parameters[names[i]]
           param == instance_param(ctx[1], ctx[2], names[i])
       IN IF Len(param.b) > 0 /\ param.pick = 0 /\ Len(param.b) # 1
            THEN Raise("ValueError")
          ELSE IF Len(param.b) > 0 /\ param.pick = 0
                  /\ param.b[1].kind # "Unsolvable"
            THEN Raise("AssertionError")
          ELSE LET new_subst == match_var_against_type(
                                  in_view(param), class_param, subst)
               IN IF new_subst.st # "ok" THEN new_subst
                  ELSE template_params(names, i + 1, ctx, new_subst)

_match_maybe_parameterized_instance(left, instance, other_type, subst) ==
  IF IsParameterizedClass(other_type)
    THEN IF IsParameterizedClass(left)
           THEN IF base_cls(left) # base_cls(other_type)
                  THEN Raise("AssertionError")
                ELSE template_params(template(left), 1,
                                     <<left, instance, other_type>>, subst)
         ELSE IF left # base_cls(other_type) THEN Raise("AssertionError")
         ELSE template_params(template(other_type), 1,
                              <<other_type, instance, other_type>>, subst)
  ELSE subst

\* literal tuple against a tuple class: slot i against element i
tuple_slots(pyval, slots, i, subst) ==
  IF i > Len(pyval) THEN subst
  ELSE LET new_subst == match_var_against_type(pyval[i], slots[i], subst)
       IN IF new_subst.st # "ok" THEN new_subst
          ELSE tuple_slots(pyval, slots, i + 1, new_subst)

\* literal tuple against a parameterized class: every element against T
tuple_elements(pyval, class_param, i, subst) ==
  IF i > Len(pyval) THEN subst
  ELSE LET new_subst == match_var_against_type(pyval[i], class_param, subst)
       IN IF new_subst.st # "ok" THEN new_subst
          ELSE tuple_elements(pyval, class_param, i + 1, new_subst)

\* instance of a generic class against a tuple class: T against every slot
instance_slots(param, slots, i, subst) ==
  IF i > Len(slots) THEN subst
  ELSE LET new_subst == match_var_against_type(param, slots[i], subst)
       IN IF new_subst.st # "ok" THEN new_subst
          ELSE instance_slots(param, slots, i + 1, new_subst)

_match_heterogeneous_tuple_instance(left, instance, other_type, subst) ==
  IF instance.kind = "Tuple"
    THEN IF other_type.kind = "TupleClass"
           THEN IF Len(instance.pyval) = Len(other_type.slots)
                  THEN tuple_slots(instance.pyval, other_type.slots, 1, subst)
                ELSE NoneR
         ELSE IF IsParameterizedClass(other_type)
           THEN tuple_elements(instance.pyval,
                               other_type.type_parameters["T"], 1, subst)
         ELSE subst
  ELSE IF left.kind = "TupleClass"
    THEN _instantiate_and_match(left, other_type, subst)
  ELSE IF other_type.kind # "TupleClass" THEN Raise("AssertionError")
  ELSE IF IsSimpleAbstractValue(instance)
    THEN IF "T" \notin DOMAIN instance.tp THEN Raise("KeyError")
         ELSE instance_slots(instance.tp["T"], other_type.slots, 1, subst)
  ELSE subst

(***************************************************************************)
(* _match_from_mro: [st |-> "hit", at |-> i, base |-> mro[i]],             *)
(* [st |-> "none"] for None, [st |-> "raise"] for the AssertionError       *)
(***************************************************************************)
RECURSIVE mro_bases(_, _, _)
\* mro_bases as it would be if an ambiguous base ended the search
mro_bases_ambiguous_stops(bases, i, other_type) ==
  IF i > Len(bases) THEN [st |-> "none", at |-> 0]
  ELSE LET base == bases[i]
           cls == IF IsParameterizedClass(base) THEN base_cls(base) ELSE base
       IN IF IsClass(cls)
            THEN IF other_type = cls
                    \/ (IsParameterizedClass(other_type)
                        /\ base_cls(other_type) = cls)
                   THEN [st |-> "hit", at |-> i, base |-> base]
                 ELSE mro_bases(bases, i + 1, other_type)
          ELSE IF cls.kind \in AMBIGUOUS_OR_EMPTY
            THEN [st |-> "none", at |-> 0]
          ELSE [st |-> "raise", at |-> i]

mro_bases(bases, i, other_type) ==
  IF i > Len(bases) THEN [st |-> "none", at |-> 0]
  ELSE LET base == bases[i]
           cls == IF IsParameterizedClass(base) THEN base_cls(base) ELSE base
       IN IF IsClass(cls)
            THEN IF other_type = cls
                    \/ (IsParameterizedClass(other_type)
                        /\ base_cls(other_type) = cls)
                   THEN [st |-> "hit", at |-> i, base |-> base]
                 ELSE mro_bases(bases, i + 1, other_type)
          ELSE IF cls.kind \in AMBIGUOUS_OR_EMPTY
            THEN mro_bases(bases, i + 1, other_type)
          ELSE [st |-> "raise", at |-> i]

_match_from_mro(left, other_type) == mro_bases(mro(left), 1, other_type)

(***************************************************************************)
(* _match_class_and_instance_against_type                                  *)
(***************************************************************************)
\* _match_class_and_instance_against_type as it would be without the
\* table of compatible builtins
without_compatible_builtins(left, instance, other_type, subst) ==
  IF full_name(other_type) = "__builtin__.object" THEN subst
  ELSE IF IsClass(other_type)
    THEN LET found == _match_from_mro(left, other_type)
         IN IF found.st = "raise" THEN Raise("AssertionError")
            ELSE IF found.st = "none" THEN NoneR
            ELSE _match_instance(found.base, instance, other_type, subst)
  ELSE IF other_type.kind = "Nothing" THEN NoneR
  ELSE Raise("NotImplementedError")

\* _match_class_and_instance_against_type as it would be if an instance
\* matched Nothing
instance_matches_nothing(left, instance, other_type, subst) ==
  IF full_name(other_type) = "__builtin__.object" THEN subst
  ELSE IF full_name(left) \in DOMAIN compatible_builtins
          /\ compatible_builtins[full_name(left)] = full_name(other_type)
    THEN subst
  ELSE IF IsClass(other_type)
    THEN LET found == _match_from_mro(left, other_type)
         IN IF found.st = "raise" THEN Raise("AssertionError")
            ELSE IF found.st = "none" THEN NoneR
            ELSE _match_instance(found.base, instance, other_type, subst)
  ELSE IF other_type.kind = "Nothing" THEN subst
  ELSE Raise("NotImplementedError")

_match_class_and_instance_against_type(left, instance, other_type, subst) ==
  IF full_name(other_type) = "__builtin__.object" THEN subst
  ELSE IF full_name(left) \in DOMAIN compatible_builtins
          /\ compatible_builtins[full_name(left)] = full_name(other_type)
    THEN subst
  ELSE IF IsClass(other_type)
    THEN LET found == _match_from_mro(left, other_type)
         IN IF found.st = "raise" THEN Raise("AssertionError")
            ELSE IF found.st = "none" THEN NoneR
            ELSE _match_instance(found.base, instance, other_type, subst)
  ELSE IF other_type.kind = "Nothing" THEN NoneR
  ELSE Raise("NotImplementedError")

(***************************************************************************)
(* compute_subst: [subst |-> substitution or None, name |-> bad parameter] *)
(* name is "" for Python's None                                            *)
(***************************************************************************)
RECURSIVE formal_args_fold(_, _, _, _)
formal_args_fold(formal_args, arg_dict, i, subst) ==
  IF i > Len(formal_args) THEN [subst |-> subst, name |-> ""]
  ELSE IF formal_args[i].name \notin DOMAIN arg_dict
    THEN [subst |-> Raise("KeyError"), name |-> ""]
  ELSE LET new_subst == _match_value_against_type(
                          arg_dict[formal_args[i].name],
                          formal_args[i].formal, subst)
       IN IF new_subst.st = "raise" THEN [subst |-> new_subst, name |-> ""]
          ELSE IF new_subst.st = "none"
            THEN [subst |-> NoneR, name |-> formal_args[i].name]
          ELSE formal_args_fold(formal_args, arg_dict, i + 1, new_subst)

compute_subst(formal_args, arg_dict) ==
  IF DOMAIN arg_dict = {}
    THEN IF Len(formal_args) # 0
           THEN [subst |-> Raise("AssertionError"), name |-> ""]
         ELSE [subst |-> Ok(EmptyMap), name |-> ""]
  ELSE formal_args_fold(formal_args, arg_dict, 1, Ok(EmptyMap))

(***************************************************************************)
(* The values and types the calls are made with                            *)
(***************************************************************************)
TypeParameter(n) == [kind |-> "TypeParameter", name |-> n]

Union(options) == [kind |-> "Union", options |-> options]

Unknown == [kind |-> "Unknown"]

Unsolvable == [kind |-> "Unsolvable"]

Nothing == [kind |-> "Nothing"]

Empty == [kind |-> "Empty"]

\* the element type of a tuple class: the slot types merged
merged(slots) ==
  IF Len(slots) = 0 THEN Nothing
  ELSE IF \A i \in 1..Len(slots) : slots[i] = slots[1] THEN slots[1]
  ELSE Union(slots)

TupleClass(slots) ==
  [kind |-> "TupleClass", name |-> "__builtin__.tuple", template |-> <<"T">>,
   type_parameters |-> [x \in {"T"} |-> merged(slots)], slots |-> slots]

Instance(c, i) ==
  [kind |-> "Instance", cls |-> <<Cls(c)>>, id |-> i, tp |-> EmptyMap]

\* an instance of a generic class, its parameter stored under name n
Generic(c, n, var) ==
  [kind |-> "Instance", cls |-> <<Cls(c)>>, id |-> 1,
   tp |-> [x \in {n} |-> var]]

RECURSIVE contents(_, _)
contents(pyval, i) ==
  IF i > Len(pyval) THEN <<>> ELSE pyval[i].b \o contents(pyval, i + 1)

\* a literal tuple; its T holds the bindings of all its elements, and the
\* view pins the binding numbered pick there
TupleValue(pyval, pick) ==
  [kind |-> "Tuple", cls |-> <<Cls("__builtin__.tuple")>>, id |-> 1,
   pyval |-> pyval, tp |-> [x \in {"T"} |-> [b |-> contents(pyval, 1),
                                              pick |-> pick]]]

(***************************************************************************)
(* The matcher on a store of objects.  The operators above give a          *)
(* substitution as a value; here the dicts and the variables in them are   *)
(* objects of a store, as in Python, so that a write to a dict or variable *)
(* the caller holds can be told from a write to a copy:                    *)
(*   h     : [dicts |-> sequence of dicts, name -> place of a variable,    *)
(*            variables |-> sequence of variables, each a set of values]   *)
(*   subst : [st |-> "ok", ref |-> place of the dict in h.dicts, h |-> h]  *)
(* None and an exception carry the store the call left behind.  Each       *)
(* store_f is f of the code, statement by statement.                       *)
(***************************************************************************)
NoneIn(subst) == [st |-> "none", ref |-> 0, h |-> subst.h, err |-> ""]

RaiseIn(e, subst) == [st |-> "raise", ref |-> 0, h |-> subst.h, err |-> e]

\* the keys of the dict subst
subst_keys(subst) == DOMAIN subst.h.dicts[subst.ref]

\* the bindings of the variables of the dict subst
bindings(subst) ==
  [n \in subst_keys(subst) |-> subst.h.variables[subst.h.dicts[subst.ref][n]]]

\* copy as it would be if the dict itself were handed on
copy_is_same_dict(subst) == subst

\* subst.copy(): a new dict with the items of subst
copy(subst) ==
  [subst EXCEPT !.ref = Len(subst.h.dicts) + 1,
                !.h.dicts = Append(@, @[subst.ref])]

\* subst[name] = var
setitem(subst, name, var) ==
  [subst EXCEPT !.h.dicts[subst.ref] = Put(@, name, var)]

\* program.NewVariable, AssignToNewVariable: a new variable that holds the
\* bindings given
NewVariable(subst, data) ==
  [subst |-> [subst EXCEPT !.h.variables = Append(@, data)],
   var |-> Len(subst.h.variables) + 1]

\* var.AddBinding, for each of data
AddBinding(subst, var, data) ==
  [subst EXCEPT !.h.variables[var] = @ \cup data]

\* the substitution a caller goes on with after the attempt new_subst
after(subst, new_subst) == [subst EXCEPT !.h = new_subst.h]

\* the type parameter branch: the merge, or the new variable, and the
\* other bindings with the type key of the value
store_new_var(value, name, subst) ==
  LET left == value.b[value.pick]
      type_key == get_type_key(left)
      others == {value.b[j] : j \in {k \in 1..Len(value.b) :
                                       k # value.pick
                                       /\ get_type_key(value.b[k]) = type_key}}
      copied == copy(subst)
      new == IF name \in subst_keys(subst)
               THEN LET merged_var == NewVariable(copied,
                                                  bindings(copied)[name])
                    IN [merged_var EXCEPT
                          !.subst = AddBinding(@, merged_var.var, {left})]
             ELSE NewVariable(copied, {left})
  IN AddBinding(setitem(new.subst, name, new.var), new.var, others)

RECURSIVE store_right_side_options(_, _, _)
RECURSIVE store_match_var_against_type(_, _, _)
RECURSIVE store_union_options(_, _, _, _)
RECURSIVE store_match_value_against_type(_, _, _)
RECURSIVE store_left_options(_, _, _, _)
RECURSIVE store_match_type_against_type(_, _, _)
RECURSIVE store_new_views(_, _, _, _)
RECURSIVE store_instantiate_and_match(_, _, _)
RECURSIVE store_left_classes(_, _, _, _)
RECURSIVE store_match_instance_against_type(_, _, _)
RECURSIVE store_match_instance(_, _, _, _)
RECURSIVE store_template_params(_, _, _, _)
RECURSIVE store_match_maybe_parameterized_instance(_, _, _, _)
RECURSIVE store_tuple_slots(_, _, _, _)
RECURSIVE store_tuple_elements(_, _, _, _)
RECURSIVE store_instance_slots(_, _, _, _)
RECURSIVE store_match_heterogeneous_tuple_instance(_, _, _, _)
RECURSIVE store_match_class_and_instance_against_type(_, _, _, _)

store_right_side_options(options, i, subst) ==
  IF i > Len(options) THEN subst
  ELSE IF options[i].kind = "TypeParameter"
    THEN IF subst.st = "none" THEN RaiseIn("TypeError", subst)
         ELSE IF options[i].name \notin subst_keys(subst)
           THEN LET new == NewVariable(copy(subst), {})
                IN store_right_side_options(
                     options, i + 1,
                     setitem(new.subst, options[i].name, new.var))
         ELSE store_right_side_options(options, i + 1, subst)
  ELSE store_right_side_options(options, i + 1, subst)

store_match_var_against_type(var, other_type, subst) ==
  IF Len(var.b) > 0
    THEN IF var.pick = 0 THEN RaiseIn("KeyError", subst)
         ELSE store_match_value_against_type(var, other_type, subst)
  ELSE store_right_side_options(
         IF other_type.kind = "Union" THEN other_type.options
         ELSE <<other_type>>, 1, subst)

\* the loop over the options of a union formal
store_union_options(value, options, i, subst) ==
  IF i > Len(options) THEN NoneIn(subst)
  ELSE LET new_subst ==
             store_match_value_against_type(value, options[i], subst)
       IN IF new_subst.st # "none" THEN new_subst
          ELSE store_union_options(value, options, i + 1,
                                   after(subst, new_subst))

store_match_value_against_type(value, other_type, subst) ==
  LET left == value.b[value.pick]
  IN IF IsClass(other_type)
       THEN store_match_type_against_type(left, other_type, subst)
     ELSE IF other_type.kind = "Union"
       THEN store_union_options(value, other_type.options, 1, subst)
     ELSE IF other_type.kind = "TypeParameter"
       THEN IF subst.st = "none" THEN RaiseIn("TypeError", subst)
            ELSE store_new_var(value, other_type.name, subst)
     ELSE IF matches_anything(left, other_type) THEN subst
     ELSE IF other_type.kind = "Nothing"
       THEN store_match_type_against_type(left, other_type, subst)
     ELSE NoneIn(subst)

\* the loop over the options of a union value
store_left_options(options, i, other_type, subst) ==
  IF i > Len(options) THEN NoneIn(subst)
  ELSE LET new_subst ==
             store_match_type_against_type(options[i], other_type, subst)
       IN IF new_subst.st # "none" THEN new_subst
          ELSE store_left_options(options, i + 1, other_type,
                                  after(subst, new_subst))

store_match_type_against_type(left, other_type, subst) ==
  IF left.kind = "Empty" /\ other_type.kind = "Nothing" THEN subst
  ELSE IF left.kind \in AMBIGUOUS_OR_EMPTY
    THEN store_match_instance(other_type, left, other_type, subst)
  ELSE IF left.kind = "ClassValue"
    THEN IF full_name(other_type) = "__builtin__.type"
            /\ IsParameterizedClass(other_type)
           THEN store_instantiate_and_match(left, other_type.type_parameters["T"],
                                       subst)
         ELSE IF full_name(other_type) \in
                   {"__builtin__.type", "__builtin__.object", "typing.Callable"}
           THEN subst
         ELSE IF Len(left.cls) > 0
           THEN store_match_instance_against_type(left, other_type, subst)
         ELSE NoneIn(subst)
  ELSE IF left.kind = "Module"
    THEN IF full_name(other_type) \in
              {"__builtin__.module", "__builtin__.object", "types.ModuleType"}
           THEN subst
         ELSE NoneIn(subst)
  ELSE IF IsSimpleAbstractValue(left)
    THEN store_match_instance_against_type(left, other_type, subst)
  ELSE IF left.kind = "SuperInstance"
    THEN store_match_class_and_instance_against_type(
           left.super_cls, left.super_obj, other_type, subst)
  ELSE IF left.kind \in {"Function", "BoundFunction"}
    THEN IF full_name(other_type) \in {"__builtin__.object", "typing.Callable"}
           THEN subst
         ELSE NoneIn(subst)
  ELSE IF left.kind = "ClassMethod"
    THEN IF full_name(other_type) \in
              {"__builtin__.classmethod", "__builtin__.object"}
           THEN subst
         ELSE NoneIn(subst)
  ELSE IF left.kind = "StaticMethod"
    THEN IF full_name(other_type) \in
              {"__builtin__.staticmethod", "__builtin__.object"}
           THEN subst
         ELSE NoneIn(subst)
  ELSE IF left.kind = "Nothing"
    THEN IF other_type.kind = "Nothing" THEN subst ELSE NoneIn(subst)
  ELSE IF left.kind = "Union"
    THEN store_left_options(left.options, 1, other_type, subst)
  ELSE RaiseIn("NotImplementedError", subst)

\* the loop over the views of the new instance
store_new_views(views, i, other_type, subst) ==
  IF i > Len(views) THEN NoneIn(subst)
  ELSE LET new_subst == store_match_var_against_type(views[i], other_type, subst)
       IN IF new_subst.st # "none" THEN new_subst
          ELSE store_new_views(views, i + 1, other_type,
                               after(subst, new_subst))

store_instantiate_and_match(left, other_type, subst) ==
  store_new_views(get_views(instantiate(left)), 1, other_type, subst)

\* the loop over the classes of the instance
store_left_classes(classes, i, args3, subst) ==
  IF i > Len(classes) THEN NoneIn(subst)
  ELSE LET new_subst == store_match_class_and_instance_against_type(
                          classes[i], args3[1], args3[2], subst)
       IN IF new_subst.st # "none" THEN new_subst
          ELSE store_left_classes(classes, i + 1, args3,
                                  after(subst, new_subst))

store_match_instance_against_type(left, other_type, subst) ==
  IF Len(left.cls) = 0 THEN RaiseIn("AssertionError", subst)
  ELSE store_left_classes(left.cls, 1, <<left, other_type>>, subst)

store_match_instance(left, instance, other_type, subst) ==
  LET tuple_subst ==
        IF left.kind = "TupleClass" \/ instance.kind = "Tuple"
           \/ other_type.kind = "TupleClass"
          THEN store_match_heterogeneous_tuple_instance(
                 left, instance, other_type, subst)
        ELSE subst
  IN IF tuple_subst.st = "raise" THEN tuple_subst
     ELSE store_match_maybe_parameterized_instance(
            left, instance, other_type, tuple_subst)

\* the loop over the template; ctx is <<left, instance, other_type>>
store_template_params(names, i, ctx, subst) ==
  IF i > Len(names) THEN subst
  ELSE LET class_param == ctx[3].type_parameters[names[i]]
           param == instance_param(ctx[1], ctx[2], names[i])
       IN IF Len(param.b) > 0 /\ param.pick = 0 /\ Len(param.b) # 1
            THEN RaiseIn("ValueError", subst)
          ELSE IF Len(param.b) > 0 /\ param.pick = 0
                  /\ param.b[1].kind # "Unsolvable"
            THEN RaiseIn("AssertionError", subst)
          ELSE LET new_subst == store_match_var_against_type(
                                  in_view(param), class_param, subst)
               IN IF new_subst.st # "ok" THEN new_subst
                  ELSE store_template_params(names, i + 1, ctx, new_subst)

store_match_maybe_parameterized_instance(left, instance, other_type, subst) ==
  IF IsParameterizedClass(other_type)
    THEN IF IsParameterizedClass(left)
           THEN IF base_cls(left) # base_cls(other_type)
                  THEN RaiseIn("AssertionError", subst)
                ELSE store_template_params(template(left), 1,
                                     <<left, instance, other_type>>, subst)
         ELSE IF left # base_cls(other_type) THEN RaiseIn("AssertionError", subst)
         ELSE store_template_params(template(other_type), 1,
                              <<other_type, instance, other_type>>, subst)
  ELSE subst

\* literal tuple against a tuple class: slot i against element i
store_tuple_slots(pyval, slots, i, subst) ==
  IF i > Len(pyval) THEN subst
  ELSE LET new_subst == store_match_var_against_type(pyval[i], slots[i], subst)
       IN IF new_subst.st # "ok" THEN new_subst
          ELSE store_tuple_slots(pyval, slots, i + 1, new_subst)

\* literal tuple against a parameterized class: every element against T
store_tuple_elements(pyval, class_param, i, subst) ==
  IF i > Len(pyval) THEN subst
  ELSE LET new_subst == store_match_var_against_type(pyval[i], class_param, subst)
       IN IF new_subst.st # "ok" THEN new_subst
          ELSE store_tuple_elements(pyval, class_param, i + 1, new_subst)

\* instance of a generic class against a tuple class: T against every slot
store_instance_slots(param, slots, i, subst) ==
  IF i > Len(slots) THEN subst
  ELSE LET new_subst == store_match_var_against_type(param, slots[i], subst)
       IN IF new_subst.st # "ok" THEN new_subst
          ELSE store_instance_slots(param, slots, i + 1, new_subst)

store_match_heterogeneous_tuple_instance(left, instance, other_type, subst) ==
  IF instance.kind = "Tuple"
    THEN IF other_type.kind = "TupleClass"
           THEN IF Len(instance.pyval) = Len(other_type.slots)
                  THEN store_tuple_slots(instance.pyval, other_type.slots, 1, subst)
                ELSE NoneIn(subst)
         ELSE IF IsParameterizedClass(other_type)
           THEN store_tuple_elements(instance.pyval,
                               other_type.type_parameters["T"], 1, subst)
         ELSE subst
  ELSE IF left.kind = "TupleClass"
    THEN store_instantiate_and_match(left, other_type, subst)
  ELSE IF other_type.kind # "TupleClass" THEN RaiseIn("AssertionError", subst)
  ELSE IF IsSimpleAbstractValue(instance)
    THEN IF "T" \notin DOMAIN instance.tp THEN RaiseIn("KeyError", subst)
         ELSE store_instance_slots(instance.tp["T"], other_type.slots, 1, subst)
  ELSE subst

store_match_class_and_instance_against_type(left, instance, other_type, subst) ==
  IF full_name(other_type) = "__builtin__.object" THEN subst
  ELSE IF full_name(left) \in DOMAIN compatible_builtins
          /\ compatible_builtins[full_name(left)] = full_name(other_type)
    THEN subst
  ELSE IF IsClass(other_type)
    THEN LET found == _match_from_mro(left, other_type)
         IN IF found.st = "raise" THEN RaiseIn("AssertionError", subst)
            ELSE IF found.st = "none" THEN NoneIn(subst)
            ELSE store_match_instance(found.base, instance, other_type, subst)
  ELSE IF other_type.kind = "Nothing" THEN NoneIn(subst)
  ELSE RaiseIn("NotImplementedError", subst)

(***************************************************************************)
(* bad_matches: [st |-> "ok", bad |-> the views that did not match], or    *)
(* the exception a view's match raised.  subst is NoneR when the caller    *)
(* passes no substitution.                                                 *)
(***************************************************************************)
\* subst or {}
subst_or_empty(subst) ==
  IF subst.st = "none" \/ DOMAIN subst.m = {} THEN Ok(EmptyMap) ELSE subst

RECURSIVE bad_views(_, _, _, _, _)
\* the loop over the views of var
bad_views(views, i, other_type, subst, bad) ==
  IF i > Len(views) THEN [st |-> "ok", bad |-> bad, err |-> ""]
  ELSE LET new_subst == match_var_against_type(views[i], other_type, subst)
       IN IF new_subst.st = "raise" THEN new_subst
          ELSE IF new_subst.st = "none"
            THEN bad_views(views, i + 1, other_type, subst,
                           Append(bad, views[i]))
          ELSE bad_views(views, i + 1, other_type, subst, bad)

bad_matches(var, other_type, subst) ==
  bad_views(get_views(var.b), 1, other_type, subst_or_empty(subst), <<>>)

Pinned(b, pick) == [b |-> b, pick |-> pick]

SeqsUpTo(S, n) == UNION {[1..k -> S] : k \in 0..n}

TInt == Cls("__builtin__.int")

TA == Cls("A")

SlotTypes == {TInt, TA, TypeParameter("T")}

TupleClasses == {TupleClass(slots) : slots \in SeqsUpTo(SlotTypes, MaxTuple)}

LeafTypes ==
  {Cls("__builtin__.object"), TInt, Cls("__builtin__.long"), TA, Cls("B"),
   TypeParameter("T"), TypeParameter("K"), Unknown, Unsolvable, Nothing,
   [kind |-> "BoundFunction"]}

ParameterizedClasses ==
  {PCls("__builtin__.list", TypeParameter("T")),
   PCls("__builtin__.list", TInt),
   PCls("__builtin__.type", TA)}

UnionMembers ==
  {TInt, TA, Cls("B"), TypeParameter("T"), TypeParameter("K"), Nothing,
   Unknown, PCls("__builtin__.list", TypeParameter("K")),
   TupleClass(<<TypeParameter("T")>>), TupleClass(<<TInt, TA>>)}

Unions ==
  {Union(<<p[1], p[2]>>) :
     p \in {q \in UnionMembers \X UnionMembers : q[1] # q[2]}}

FormalTypes == LeafTypes \cup ParameterizedClasses \cup TupleClasses \cup Unions

Elements ==
  {Pinned(<<>>, 0), Pinned(<<Instance("__builtin__.int", 1)>>, 1),
   Pinned(<<Instance("A", 1)>>, 1),
   Pinned(<<Instance("A", 1), Instance("__builtin__.int", 1)>>, 1)}

TupleValues ==
  {TupleValue(pyval, pick) :
     pyval \in SeqsUpTo(Elements, MaxTuple), pick \in 0..(2 * MaxTuple)}

Tuples ==
  {v \in TupleValues :
     IF Len(v.tp["T"].b) = 0 THEN v.tp["T"].pick = 0
     ELSE v.tp["T"].pick \in 1..Len(v.tp["T"].b)}

Instances ==
  {Instance("A", 1), Instance("A", 2), Instance("B", 1), Instance("C", 1),
   Instance("D", 1), Instance("__builtin__.int", 1),
   Instance("IntList", 1),
   Generic("__builtin__.list", "T", Pinned(<<Instance("A", 1)>>, 1)),
   Generic("__builtin__.list", "T", Pinned(<<>>, 0)),
   Generic("IntList", "T", Pinned(<<Instance("__builtin__.int", 1)>>, 1))}

OtherValues ==
  {Unknown, Unsolvable, Empty, Nothing,
   [kind |-> "ClassValue", name |-> "A", cls |-> <<Cls("__builtin__.type")>>],
   [kind |-> "ClassValue", name |-> "B", cls |-> <<>>],
   [kind |-> "Module"], [kind |-> "BoundFunction"], [kind |-> "StaticMethod"],
   [kind |-> "ClassMethod"],
   [kind |-> "SuperInstance", super_cls |-> Cls("B"),
    super_obj |-> Instance("B", 1)],
   Union(<<Instance("A", 1), Nothing>>),
   Union(<<Instance("__builtin__.int", 1), Unknown>>),
   Union(<<Instance("B", 1), Instance("A", 1)>>)}

Values == Instances \cup Tuples \cup OtherValues

\* three lists: two objects of type list[A], one of type list[int]
Lists ==
  <<Generic("__builtin__.list", "T", Pinned(<<Instance("A", 1)>>, 1)),
    [Generic("__builtin__.list", "T", Pinned(<<Instance("A", 2)>>, 1))
       EXCEPT !.id = 2],
    Generic("__builtin__.list", "T",
            Pinned(<<Instance("__builtin__.int", 1)>>, 1))>>

\* a binding: a variable with the binding pinned
Bindings ==
  {Pinned(<<v>>, 1) : v \in Values}
  \cup {Pinned(<<Instance("A", 1), Instance("A", 2),
                 Instance("__builtin__.int", 1)>>, k) : k \in 1..3}
  \cup {Pinned(Lists, k) : k \in 1..3}

Variables == Bindings \cup {Pinned(<<>>, 0)}

Substs ==
  {Ok(EmptyMap),
   Ok([x \in {"T"} |-> {Instance("B", 1)}]),
   Ok([x \in {"K"} |-> {}]),
   Ok([x \in {"T", "K"} |->
         IF x = "T" THEN {Instance("A", 2)}
         ELSE {Instance("__builtin__.int", 1)}])}

\* the variables bad_matches is called with: no view is chosen yet
BadMatchVars == {Var(v.b) : v \in Variables}

\* the (formal, actual) pairs compute_subst is called with
ArgTypes ==
  {TypeParameter("T"), TypeParameter("K"), TA, TInt,
   TupleClass(<<TypeParameter("T")>>),
   PCls("__builtin__.list", TypeParameter("T"))}

ArgBindings ==
  {Pinned(<<Instance("A", 1)>>, 1), Pinned(<<Instance("B", 1)>>, 1),
   Pinned(<<Instance("__builtin__.int", 1)>>, 1),
   Pinned(<<Instance("A", 1), Instance("A", 2)>>, 2),
   Pinned(<<TupleValue(<<Pinned(<<Instance("A", 1)>>, 1),
                         Pinned(<<Instance("A", 1)>>, 1)>>, 1)>>, 1),
   Pinned(<<Generic("__builtin__.list", "T",
                    Pinned(<<Instance("__builtin__.int", 1)>>, 1))>>, 1)}

Calls == SeqsUpTo(ArgTypes \X ArgBindings, MaxArgs)

\* parameter i of a call is named ToString(i)
formal_args_of(call) ==
  [i \in 1..Len(call) |-> [name |-> ToString(i), formal |-> call[i][1]]]

arg_dict_of(call) ==
  [n \in {ToString(i) : i \in 1..Len(call)} |->
     call[CHOOSE i \in 1..Len(call) : ToString(i) = n][2]]

\* the classes the MRO search is called with: class X, its bases, object
MroEntries ==
  {Cls("A"), Cls("B"), Cls("__builtin__.list"),
   PCls("__builtin__.list", TInt), Unknown, Unsolvable, Empty}

ClassX(bases) ==
  [kind |-> "Class", name |-> "X",
   mro |-> <<Cls("X")>> \o bases \o <<Cls("__builtin__.object")>>]

MroClasses == {ClassX(bases) : bases \in SeqsUpTo(MroEntries, MaxMro)}

MroTypes ==
  {Cls("A"), Cls("B"), Cls("__builtin__.list"), Cls("__builtin__.int"),
   PCls("__builtin__.list", TypeParameter("T")),
   PCls("__builtin__.list", TInt)}

\* the builtin classes the table of compatible builtins is about
BuiltinClasses == {TInt, Cls("__builtin__.long")}

\* a class together with its MRO
WithMro(c) == [kind |-> "Class", name |-> c.name, mro |-> MroTable[c.name]]

(***************************************************************************)
(* The calls                                                               *)
(***************************************************************************)
\* the matcher is called on no AST node
NoNode == [kind |-> "none"]

Init == op = "idle" /\ args = <<>> /\ ret = <<>> /\ node = NoNode

ComputeSubst ==
  /\ op = "idle"
  /\ UNCHANGED node
  /\ \E call \in Calls :
       /\ op' = "compute_subst"
       /\ args' = [formal_args |-> formal_args_of(call),
                   arg_dict |-> arg_dict_of(call)]
       /\ ret' = compute_subst(formal_args_of(call), arg_dict_of(call))

MatchVarAgainstType ==
  /\ op = "idle"
  /\ UNCHANGED node
  /\ \E var \in Variables, other_type \in FormalTypes, subst \in Substs :
       /\ op' = "match_var_against_type"
       /\ args' = [var |-> var, other_type |-> other_type, subst |-> subst]
       /\ ret' = match_var_against_type(var, other_type, subst)

MatchValueAgainstType ==
  /\ op = "idle"
  /\ UNCHANGED node
  /\ \E value \in Bindings, other_type \in FormalTypes, subst \in Substs :
       /\ op' = "_match_value_against_type"
       /\ args' = [value |-> value, other_type |-> other_type,
                   subst |-> subst]
       /\ ret' = _match_value_against_type(value, other_type, subst)

MatchFromMro ==
  /\ op = "idle"
  /\ UNCHANGED node
  /\ \E left \in MroClasses, other_type \in MroTypes :
       /\ op' = "_match_from_mro"
       /\ args' = [left |-> left, other_type |-> other_type]
       /\ ret' = _match_from_mro(left, other_type)

MatchClassAndInstanceAgainstType ==
  /\ op = "idle"
  /\ UNCHANGED node
  /\ \E left \in MroClasses \cup {WithMro(c) : c \in BuiltinClasses},
        other_type \in MroTypes \cup BuiltinClasses, subst \in Substs :
       /\ op' = "_match_class_and_instance_against_type"
       /\ args' = [left |-> left, other_type |-> other_type, subst |-> subst]
       /\ ret' = _match_class_and_instance_against_type(
                   left, [kind |-> "Instance", cls |-> <<left>>, id |-> 1,
                          tp |-> EmptyMap], other_type, subst)

BadMatches ==
  /\ op = "idle"
  /\ UNCHANGED node
  /\ \E var \in BadMatchVars, other_type \in FormalTypes,
        subst \in Substs \cup {NoneR} :
       /\ op' = "bad_matches"
       /\ args' = [var |-> var, other_type |-> other_type, subst |-> subst]
       /\ ret' = bad_matches(var, other_type, subst)

Return ==
  /\ op # "idle"
  /\ op' = "idle" /\ args' = <<>> /\ ret' = <<>>
  /\ UNCHANGED node

Next ==
  \/ ComputeSubst
  \/ MatchVarAgainstType
  \/ MatchValueAgainstType
  \/ MatchFromMro
  \/ MatchClassAndInstanceAgainstType
  \/ BadMatches
  \/ Return

Spec == Init /\ [][Next]_vars

(***************************************************************************)
(* Calls of match_var_against_type on the store.  The caller's             *)
(* substitution is the dict at place 1 of the store.                       *)
(***************************************************************************)
\* dict[k, v], a class of two type parameters, and an instance of dict
Dict(k, v) ==
  [kind |-> "ParameterizedClass", name |-> "__builtin__.dict",
   template |-> <<"K", "V">>,
   type_parameters |-> [x \in {"K", "V"} |-> IF x = "K" THEN k ELSE v]]

DictInstance(k, v) ==
  [kind |-> "Instance", cls |-> <<Cls("__builtin__.dict")>>, id |-> 1,
   tp |-> [x \in {"K", "V"} |->
             IF x = "K" THEN Pinned(<<k>>, 1) ELSE Pinned(<<v>>, 1)]]

\* formal types of which an attempt can bind a parameter and then fail
DictTypes ==
  {Dict(TypeParameter("T"), TInt),
   Union(<<Dict(TypeParameter("T"), TInt), Dict(TA, TypeParameter("T"))>>),
   Union(<<Dict(TypeParameter("T"), TInt), TypeParameter("K")>>)}

DictVariables ==
  {Pinned(<<DictInstance(Instance("A", 1), Instance("B", 1))>>, 1),
   Pinned(<<DictInstance(Instance("A", 1),
                         Instance("__builtin__.int", 1))>>, 1),
   Pinned(<<Union(<<DictInstance(Instance("A", 1), Instance("B", 1)),
                    DictInstance(Instance("B", 1),
                                 Instance("__builtin__.int", 1))>>)>>, 1)}

\* the names of the type parameters, in the order their variables are put
\* into the store
ParameterNames == <<"K", "T">>

\* the store that holds the substitution subst, and nothing else
in_store(subst) ==
  LET bound(n) == n \in DOMAIN subst.m
      order == SelectSeq(ParameterNames, bound)
  IN [st |-> "ok", ref |-> 1, err |-> "",
      h |-> [dicts |-> <<[n \in DOMAIN subst.m |->
                            CHOOSE i \in 1..Len(order) : order[i] = n]>>,
             variables |-> [i \in 1..Len(order) |-> subst.m[order[i]]]]]

StoreMatchVarAgainstType ==
  /\ op = "idle"
  /\ UNCHANGED node
  /\ \E var \in Variables \cup DictVariables,
        other_type \in FormalTypes \cup DictTypes, subst \in Substs :
       /\ op' = "match_var_against_type"
       /\ args' = [var |-> var, other_type |-> other_type,
                   subst |-> in_store(subst)]
       /\ ret' = store_match_var_against_type(var, other_type,
                                              in_store(subst))

StoreNext ==
  \/ StoreMatchVarAgainstType
  \/ Return

StoreSpec == Init /\ [][StoreNext]_vars

(***************************************************************************)
(* pytd.UnionType.  A type of the AST is a record with a "kind" field; the *)
(* nodes other than UnionType compare as tuples of their fields, nodes of  *)
(* different classes are unequal.  A hash is modelled by what it is        *)
(* computed from: that of a union from the set of its members' hashes,     *)
(* that of another node from the sequence of its fields' hashes.           *)
(***************************************************************************)
MaxTypeList == 3

NamedType(n) == [kind |-> "NamedType", name |-> n]

GenericType(base_type, parameters) ==
  [kind |-> "GenericType", base_type |-> base_type,
   parameters |-> parameters]

RECURSIVE py_eq(_, _)
\* frozenset(a) == frozenset(b)
frozenset_eq(a, b) ==
  /\ \A i \in 1..Len(a) : \E j \in 1..Len(b) : py_eq(a[i], b[j])
  /\ \A j \in 1..Len(b) : \E i \in 1..Len(a) : py_eq(a[i], b[j])

\* a == b
py_eq(a, b) ==
  IF a.kind = "UnionType" /\ b.kind = "UnionType"
    THEN frozenset_eq(a.type_list, b.type_list)
  ELSE IF a.kind # b.kind THEN FALSE
  ELSE IF a.kind = "GenericType"
    THEN /\ py_eq(a.base_type, b.base_type)
         /\ Len(a.parameters) = Len(b.parameters)
         /\ \A i \in 1..Len(a.parameters) :
              py_eq(a.parameters[i], b.parameters[i])
  ELSE a = b

RECURSIVE py_hash(_)
\* hash(t)
py_hash(t) ==
  IF t.kind = "UnionType"
    THEN [frozenset_hash |->
            {py_hash(t.type_list[i]) : i \in 1..Len(t.type_list)}]
  ELSE IF t.kind = "GenericType"
    THEN [base_hash |-> py_hash(t.base_type),
          parameters_hash |->
            [i \in 1..Len(t.parameters) |-> py_hash(t.parameters[i])]]
  ELSE [name_hash |-> t.name]

RECURSIVE flattened(_, _)
\* itertools.chain.from_iterable: the members of a union in place of it
flattened(type_list, i) ==
  IF i > Len(type_list) THEN <<>>
  ELSE (IF type_list[i].kind = "UnionType" THEN type_list[i].type_list
        ELSE <<type_list[i]>>) \o flattened(type_list, i + 1)

RECURSIVE fromkeys(_, _, _)
\* fromkeys as it would be if equal keys were all kept
fromkeys_keeps_all(keys, i, unique) == keys

\* collections.OrderedDict.fromkeys: of equal keys the first is kept
fromkeys(keys, i, unique) ==
  IF i > Len(keys) THEN unique
  ELSE IF \E j \in 1..Len(unique) :
            /\ py_hash(unique[j]) = py_hash(keys[i])
            /\ py_eq(unique[j], keys[i])
    THEN fromkeys(keys, i + 1, unique)
  ELSE fromkeys(keys, i + 1, Append(unique, keys[i]))

\* UnionType.__new__
UnionType(type_list) ==
  IF Len(type_list) = 0 THEN Raise("AssertionError")
  ELSE [kind |-> "UnionType",
        type_list |-> fromkeys(flattened(type_list, 1), 1, <<>>)]

\* the types unions are built from
UnionTypeMembers ==
  {NamedType("A"), NamedType("B"), NamedType("C"),
   UnionType(<<NamedType("B"), NamedType("C")>>),
   GenericType(NamedType("list"),
               <<UnionType(<<NamedType("A"), NamedType("B")>>)>>),
   GenericType(NamedType("list"),
               <<UnionType(<<NamedType("B"), NamedType("A")>>)>>)}

TypeLists == SeqsUpTo(UnionTypeMembers, MaxTypeList)

\* every union that can be built
UnionTypes == {UnionType(type_list) : type_list \in TypeLists \ {<<>>}}

NewUnionType ==
  /\ op = "idle"
  /\ UNCHANGED node
  /\ \E type_list \in TypeLists :
       /\ op' = "UnionType"
       /\ args' = [type_list |-> type_list]
       /\ ret' = UnionType(type_list)

UnionNext ==
  \/ NewUnionType
  \/ Return

UnionSpec == Init /\ [][UnionNext]_vars

(***************************************************************************)
(* TypeDeclUnit.Lookup and Class.Lookup.  A declaration is a record with a *)
(* "decl" field (its class) and its name; the attribute _name2item of a    *)
(* node is [set |-> FALSE] until the first Lookup assigns it.  A Lookup    *)
(* gives [self |-> the node after the call, ret |-> the declaration found, *)
(* as [st |-> "ok", item |-> d], or the exception raised].                 *)
(***************************************************************************)
MaxDecls == 2

NoItems == [n \in {} |-> <<>>]

Unset == [set |-> FALSE, items |-> NoItems]

Found(item) == [st |-> "ok", item |-> item, err |-> ""]

\* TypeParameter.full_name
TypeParameter_full_name(x) ==
  IF x.scope = "None" THEN x.name ELSE x.scope \o "." \o x.name

\* self._name2item[name]
name2item(items, name) ==
  IF name \in DOMAIN items THEN Found(items[name]) ELSE Raise("KeyError")

\* d[k] = v
SetItem(items, k, v) ==
  [n \in (DOMAIN items) \cup {k} |-> IF n = k THEN v ELSE items[n]]

RECURSIVE unit_type_params(_, _, _)
\* the loop over type_params
unit_type_params(xs, i, items) ==
  IF i > Len(xs) THEN items
  ELSE unit_type_params(xs, i + 1,
                        SetItem(items, TypeParameter_full_name(xs[i]), xs[i]))

RECURSIVE unit_items(_, _, _)
\* the loop over constants, functions, classes and aliases; it ends with
\* the items so far when a name is found twice
unit_items(xs, i, items) ==
  IF i > Len(xs) THEN [st |-> "ok", items |-> items]
  ELSE IF xs[i].name \in DOMAIN items
    THEN [st |-> "raise", items |-> items]
  ELSE unit_items(xs, i + 1, SetItem(items, xs[i].name, xs[i]))

TypeDeclUnit_Lookup(self, name) ==
  IF self._name2item.set
    THEN [self |-> self, ret |-> name2item(self._name2item.items, name)]
  ELSE LET built == unit_items(
                      self.constants \o self.functions \o self.classes
                        \o self.aliases, 1,
                      unit_type_params(self.type_params, 1, NoItems))
           cached == [self EXCEPT
                        !._name2item = [set |-> TRUE, items |-> built.items]]
       IN IF built.st = "raise"
            THEN [self |-> cached, ret |-> Raise("AttributeError")]
          ELSE [self |-> cached, ret |-> name2item(built.items, name)]

RECURSIVE class_items(_, _, _)
\* the loop over methods and constants
class_items(xs, i, items) ==
  IF i > Len(xs) THEN items
  ELSE class_items(xs, i + 1, SetItem(items, xs[i].name, xs[i]))

Class_Lookup(self, name) ==
  IF self._name2item.set
    THEN [self |-> self, ret |-> name2item(self._name2item.items, name)]
  ELSE LET items == class_items(self.methods \o self.constants, 1, NoItems)
       IN [self |-> [self EXCEPT
                       !._name2item = [set |-> TRUE, items |-> items]],
           ret |-> name2item(items, name)]

\* the declarations of the modules and classes looked into
Decl(decl, name, type) == [decl |-> decl, name |-> name, type |-> type]

Constants ==
  {Decl("Constant", "x", "int"), Decl("Constant", "x", "str"),
   Decl("Constant", "y", "int")}

Functions == {Decl("Function", "x", ""), Decl("Function", "y", "")}

TypeParameters ==
  {[decl |-> "TypeParameter", name |-> "x", scope |-> "None"],
   [decl |-> "TypeParameter", name |-> "x", scope |-> "y"]}

TypeDeclUnits ==
  {[kind |-> "TypeDeclUnit", type_params |-> t, constants |-> c,
    functions |-> f, classes |-> k, aliases |-> a, _name2item |-> Unset] :
     t \in SeqsUpTo(TypeParameters, 1), c \in SeqsUpTo(Constants, MaxDecls),
     f \in SeqsUpTo(Functions, 1),
     k \in SeqsUpTo({Decl("Class", "y", "")}, 1),
     a \in SeqsUpTo({Decl("Alias", "x", "y.x")}, 1)}

Classes ==
  {[kind |-> "Class", methods |-> f, constants |-> c, _name2item |-> Unset] :
     f \in SeqsUpTo(Functions, MaxDecls), c \in SeqsUpTo(Constants, MaxDecls)}

Names == {"x", "y", "y.x", "z"}

LookupInit ==
  /\ op = "idle" /\ args = <<>> /\ ret = <<>>
  /\ node \in TypeDeclUnits \cup Classes

TypeDeclUnitLookup ==
  /\ node.kind = "TypeDeclUnit"
  /\ \E name \in Names :
       /\ op' = "TypeDeclUnit.Lookup"
       /\ args' = [name |-> name]
       /\ ret' = TypeDeclUnit_Lookup(node, name).ret
       /\ node' = TypeDeclUnit_Lookup(node, name).self

ClassLookup ==
  /\ node.kind = "Class"
  /\ \E name \in Names :
       /\ op' = "Class.Lookup"
       /\ args' = [name |-> name]
       /\ ret' = Class_Lookup(node, name).ret
       /\ node' = Class_Lookup(node, name).self

LookupNext ==
  \/ TypeDeclUnitLookup
  \/ ClassLookup

LookupSpec == LookupInit /\ [][LookupNext]_vars

(***************************************************************************)
(* Properties                                                              *)
(***************************************************************************)
Least(S) == CHOOSE i \in S : \A j \in S : i <= j

left_of(value) == value.b[value.pick]

\* the substitutions of a left-to-right fold over the pairs: after pair i,
\* or as they were when a pair before i did not match
fold_states(formal_args, arg_dict) ==
  LET s[i \in 0..Len(formal_args)] ==
        IF i = 0 THEN Ok(EmptyMap)
        ELSE IF s[i - 1].st # "ok" THEN s[i - 1]
        ELSE _match_value_against_type(arg_dict[formal_args[i].name],
                                       formal_args[i].formal, s[i - 1])
  IN s

\* C1: compute_subst returns the left-to-right fold of the pairs over one
\* substitution that starts empty: (final substitution, no name) when every
\* pair matches, the empty substitution when there are no arguments;
\* otherwise (no substitution, name of the first pair that does not match),
\* whatever the pairs after that one are.
C1_ComputeSubstIsFold ==
  op = "compute_subst" =>
    LET s == fold_states(args.formal_args, args.arg_dict)
        n == Len(args.formal_args)
        failed == {i \in 1..n : s[i].st # "ok"}
    IN IF failed = {} THEN ret = [subst |-> s[n], name |-> ""]
       ELSE ret = [subst |-> NoneR,
                   name |-> args.formal_args[Least(failed)].name]

\* C2: a binding matched against a union formal gets exactly the
\* substitution of the first member, in declaration order, that matches it
\* from the input substitution; when no member matches the match fails.
C2_UnionFirstMatch ==
  (op = "_match_value_against_type" /\ args.other_type.kind = "Union") =>
    LET options == args.other_type.options
        member(i) == _match_value_against_type(args.value, options[i],
                                               args.subst)
        matching == {i \in 1..Len(options) : member(i).st = "ok"}
    IN IF matching = {} THEN ret = NoneR
       ELSE ret = member(Least(matching))

\* C3: a type parameter matched against X and then, from the resulting
\* substitution, against Y is bound to both: after a successful
\* compute_subst the binding of every parameter whose formal is a type
\* parameter holds that parameter's value, and one match on a parameter that
\* is already bound keeps every value bound before and adds the new one.
C3_TypeParameterMerge ==
  /\ (op = "compute_subst" /\ ret.subst.st = "ok") =>
       \A i \in 1..Len(args.formal_args) :
         LET formal == args.formal_args[i].formal
         IN formal.kind = "TypeParameter" =>
              /\ formal.name \in DOMAIN ret.subst.m
              /\ left_of(args.arg_dict[args.formal_args[i].name])
                   \in ret.subst.m[formal.name]
  /\ (op = "_match_value_against_type"
      /\ args.other_type.kind = "TypeParameter"
      /\ args.other_type.name \in DOMAIN args.subst.m) =>
       /\ ret.st = "ok"
       /\ args.subst.m[args.other_type.name]
            \subseteq ret.m[args.other_type.name]
       /\ left_of(args.value) \in ret.m[args.other_type.name]

\* C3 happens: two parameters of type T, given two different values, and
\* both values are in the binding of T.
C3_Witness ==
  /\ op = "compute_subst"
  /\ Len(args.formal_args) = 2
  /\ args.formal_args[1].formal = TypeParameter("T")
  /\ args.formal_args[2].formal = TypeParameter("T")
  /\ left_of(args.arg_dict["1"]) # left_of(args.arg_dict["2"])
  /\ ret.subst.st = "ok"
  /\ {left_of(args.arg_dict["1"]), left_of(args.arg_dict["2"])}
       \subseteq ret.subst.m["T"]

\* C4: any value matched against the formal Unknown or Unsolvable matches
\* and the substitution returned is the input substitution, unchanged.
C4_UnknownFormalMatches ==
  (op = "_match_value_against_type" /\ args.other_type.kind \in AMBIGUOUS) =>
    ret = args.subst

\* C4 happens: a plain instance matched against Unknown from a substitution
\* that has bindings.
C4_Witness ==
  /\ op = "_match_value_against_type"
  /\ args.other_type = Unknown
  /\ left_of(args.value).kind = "Instance"
  /\ DOMAIN args.subst.m # {}
  /\ ret = args.subst

RECURSIVE has_type_parameter(_)
has_type_parameter(t) ==
  \/ t.kind = "TypeParameter"
  \/ /\ t.kind = "Union"
     /\ \E i \in 1..Len(t.options) : has_type_parameter(t.options[i])
  \/ /\ t.kind = "ParameterizedClass"
     /\ has_type_parameter(t.type_parameters["T"])
  \/ /\ t.kind = "TupleClass"
     /\ \E i \in 1..Len(t.slots) : has_type_parameter(t.slots[i])

C5_Kinds ==
  {"Class", "ParameterizedClass", "TupleClass", "Union", "TypeParameter",
   "Nothing"}

\* C5 as first stated: an Unknown or Unsolvable value matches every kind of
\* formal and the substitution is returned unchanged.
C5_Original ==
  (op = "_match_value_against_type"
   /\ left_of(args.value).kind \in AMBIGUOUS
   /\ args.other_type.kind \in C5_Kinds) =>
    ret = args.subst

\* C5: an Unknown or Unsolvable value matches every kind of formal (class,
\* parameterized class, tuple class, union, type parameter, Nothing); no
\* binding of the input substitution is lost; the substitution is returned
\* unchanged when the formal holds no type parameter, and a formal that is a
\* type parameter is bound to the value.
C5_UnknownValueMatches ==
  (op = "_match_value_against_type"
   /\ left_of(args.value).kind \in AMBIGUOUS
   /\ args.other_type.kind \in C5_Kinds) =>
    /\ ret.st = "ok"
    /\ \A n \in DOMAIN args.subst.m :
         n \in DOMAIN ret.m /\ args.subst.m[n] \subseteq ret.m[n]
    /\ ~has_type_parameter(args.other_type) => ret = args.subst
    /\ args.other_type.kind = "TypeParameter" =>
         left_of(args.value) \in ret.m[args.other_type.name]

\* C5 happens: Unknown matched against a type parameter that is bound; the
\* match succeeds and Unknown joins the values bound before.
C5_Witness ==
  /\ op = "_match_value_against_type"
  /\ left_of(args.value) = Unknown
  /\ args.other_type = TypeParameter("T")
  /\ "T" \in DOMAIN args.subst.m
  /\ ret.st = "ok"
  /\ ret.m["T"] = args.subst.m["T"] \cup {Unknown}
  /\ ret # args.subst

\* the names of the type parameters among the right side options
option_names(other_type) ==
  LET options == IF other_type.kind = "Union" THEN other_type.options
                 ELSE <<other_type>>
  IN {options[i].name :
        i \in {j \in 1..Len(options) : options[j].kind = "TypeParameter"}}

\* C6: a variable without bindings matches every formal; the substitution
\* returned binds every type parameter that is the formal or a member of
\* the formal union and was unbound to a new empty variable, and is the
\* input substitution everywhere else.
C6_EmptyVariableMatches ==
  (op = "match_var_against_type" /\ Len(args.var.b) = 0) =>
    /\ ret.st = "ok"
    /\ DOMAIN ret.m = DOMAIN args.subst.m \cup option_names(args.other_type)
    /\ \A n \in DOMAIN ret.m :
         ret.m[n] = IF n \in DOMAIN args.subst.m THEN args.subst.m[n] ELSE {}

\* C6 happens: the empty variable against a union of two type parameters,
\* both unbound, and both get bound.
C6_Witness ==
  /\ op = "match_var_against_type"
  /\ Len(args.var.b) = 0
  /\ args.other_type = Union(<<TypeParameter("T"), TypeParameter("K")>>)
  /\ args.subst = Ok(EmptyMap)
  /\ DOMAIN ret.m = {"T", "K"}

\* C7 as first stated: a match against Nothing succeeds only when the value
\* is Nothing or Empty.
C7_Original ==
  (op = "_match_value_against_type" /\ args.other_type = Nothing
   /\ ret.st = "ok") =>
    left_of(args.value).kind \in {"Nothing", "Empty"}

RECURSIVE bottom_like(_)
bottom_like(v) ==
  \/ v.kind \in {"Nothing", "Empty", "Unknown", "Unsolvable"}
  \/ /\ v.kind = "Union"
     /\ \E i \in 1..Len(v.options) : bottom_like(v.options[i])

\* C7: a match against Nothing succeeds only when the value is Nothing,
\* Empty, Unknown or Unsolvable or a union of values with such an option;
\* for every other value it fails, and an instance never matches Nothing.
C7_NothingIsBottom ==
  (op = "_match_value_against_type" /\ args.other_type = Nothing) =>
    /\ ret.st = "ok" => bottom_like(left_of(args.value))
    /\ ~bottom_like(left_of(args.value)) => ret = NoneR

\* C7 happens: an instance matched against Nothing fails.
C7_Witness ==
  /\ op = "_match_value_against_type"
  /\ args.other_type = Nothing
  /\ left_of(args.value).kind = "Instance"
  /\ ret = NoneR

\* C8: a literal tuple of n elements matched against a tuple class of m
\* slots, n # m, is an ordinary failure: no substitution and no error,
\* whatever the elements and the slot types are.
C8_TupleArityMismatchFails ==
  (op = "_match_value_against_type"
   /\ left_of(args.value).kind = "Tuple"
   /\ args.other_type.kind = "TupleClass"
   /\ Len(left_of(args.value).pyval) # Len(args.other_type.slots)) =>
    ret = NoneR

\* the substitutions of matching element i against slot i in index order,
\* each from the substitution of the one before
slot_states(pyval, slots, subst) ==
  LET s[i \in 0..Len(pyval)] ==
        IF i = 0 THEN subst
        ELSE IF s[i - 1].st # "ok" THEN s[i - 1]
        ELSE match_var_against_type(pyval[i], slots[i], s[i - 1])
  IN s

\* C9: a literal tuple of n elements matched against a tuple class of n
\* slots matches if and only if every element i matches slot i, the slots
\* taken in index order with the substitution threaded through them; when
\* a slot does not match, the match fails as any other does.
C9_TupleMatchesIffSlotsMatch ==
  (op = "_match_value_against_type"
   /\ left_of(args.value).kind = "Tuple"
   /\ args.other_type.kind = "TupleClass"
   /\ Len(left_of(args.value).pyval) = Len(args.other_type.slots)) =>
    LET pyval == left_of(args.value).pyval
        s == slot_states(pyval, args.other_type.slots, args.subst)
    IN IF s[Len(pyval)].st = "ok" THEN ret.st = "ok" ELSE ret = NoneR

\* the table of compatible builtins names other_type for left
compatible(left, other_type) ==
  /\ full_name(left) \in DOMAIN compatible_builtins
  /\ compatible_builtins[full_name(left)] = full_name(other_type)

\* the first place of the MRO that holds the formal, or the formal's base
\* class, plain or parameterized; 0 when there is none
first_hit(bases, other_type) ==
  LET wanted == IF IsParameterizedClass(other_type) THEN other_type.name
                ELSE IF other_type.kind = "Class" THEN other_type.name
                ELSE ""
      hits == {i \in 1..Len(bases) :
                 IsClass(bases[i]) /\ bases[i].name = wanted}
  IN IF hits = {} THEN 0 ELSE Least(hits)

\* C10: the MRO search returns the first entry of the MRO whose
\* un-parameterized class is the formal or the formal's base class;
\* ambiguous and empty bases are skipped, never returned; the instance of a
\* class matches the formal exactly when its MRO has such an entry (the
\* pairs of the table of compatible builtins, which match before the
\* search, apart).
C10_MroSearch ==
  /\ op = "_match_from_mro" =>
       LET at == first_hit(args.left.mro, args.other_type)
       IN IF at = 0 THEN ret.st = "none"
          ELSE ret = [st |-> "hit", at |-> at, base |-> args.left.mro[at]]
  /\ (/\ op = "_match_class_and_instance_against_type"
      /\ ~compatible(args.left, args.other_type)) =>
       (ret.st = "ok" <=> first_hit(args.left.mro, args.other_type) # 0)

\* C10 happens: the search passes an ambiguous base and returns the
\* ancestor behind it.
C10_Witness ==
  /\ op = "_match_from_mro"
  /\ ret.st = "hit"
  /\ \E j \in 1..(ret.at - 1) : args.left.mro[j].kind \in AMBIGUOUS_OR_EMPTY

\* C11: an instance whose class is a key of the table of compatible builtins
\* matches the formal the table names for that key, and the substitution
\* returned is the one passed in; the class's MRO, which does not hold the
\* formal, is not what lets it match
C11_CompatibleBuiltinsMatch ==
  /\ (/\ op = "_match_class_and_instance_against_type"
      /\ compatible(args.left, args.other_type))
       => ret = args.subst
  /\ (/\ op = "_match_value_against_type"
      /\ left_of(args.value).kind = "Instance"
      /\ Len(left_of(args.value).cls) = 1
      /\ compatible(left_of(args.value).cls[1], args.other_type))
       => ret = args.subst

C11_Witness ==
  /\ op = "_match_value_against_type"
  /\ left_of(args.value) = Instance("__builtin__.int", 1)
  /\ args.other_type = Cls("__builtin__.long")
  /\ _match_from_mro(TInt, Cls("__builtin__.long")).st = "none"
  /\ args.subst.m # EmptyMap
  /\ ret = args.subst

\* the views of var that fail to match, each matched from subst
failing_views(var, other_type, subst) ==
  LET fails(view) ==
        match_var_against_type(view, other_type, subst).st = "none"
  IN SelectSeq(get_views(var.b), fails)

\* C16: bad_matches returns exactly the views of the variable, in the order
\* of enumeration, whose match against the formal type fails, every view
\* matched from the substitution passed in (the empty one when none is
\* passed); the list is empty exactly when every view matches
C16_BadMatchesAreFailingViews ==
  op = "bad_matches" =>
    LET start == IF args.subst.st = "none" THEN Ok(EmptyMap) ELSE args.subst
        views == get_views(args.var.b)
    IN /\ ret.st = "ok"
       /\ ret.bad = failing_views(args.var, args.other_type, start)
       /\ (ret.bad = <<>>) <=>
            (\A i \in 1..Len(views) :
               match_var_against_type(views[i], args.other_type, start).st
                 = "ok")

\* C17: after a binding is matched against a type parameter, the binding of
\* the parameter holds the matched value and every other binding of the
\* value's variable with the matched value's type key, and no binding of
\* that variable with another type key, the values the parameter was bound
\* to before apart
C17_SameTypeKeyFolded ==
  (/\ op \in {"_match_value_against_type", "match_var_against_type"}
   /\ args.other_type.kind = "TypeParameter"
   /\ (op = "match_var_against_type" => Len(args.var.b) > 0)) =>
    LET value == IF op = "match_var_against_type" THEN args.var
                 ELSE args.value
        name == args.other_type.name
        type_key == get_type_key(left_of(value))
        others == {value.b[j] : j \in 1..Len(value.b)}
        before == IF name \in DOMAIN args.subst.m THEN args.subst.m[name]
                  ELSE {}
    IN /\ ret.st = "ok"
       /\ left_of(value) \in ret.m[name]
       /\ \A v \in others :
            IF get_type_key(v) = type_key THEN v \in ret.m[name]
            ELSE v \in ret.m[name] => v \in before

\* C17 happens: of three lists the one matched and the other list of the
\* same type, a different object, are bound to T, the list[int] is not
C17_Witness ==
  /\ op = "_match_value_against_type"
  /\ args.value = Pinned(Lists, 1)
  /\ args.other_type = TypeParameter("T")
  /\ Lists[1] # Lists[2]
  /\ get_type_key(Lists[1]) = get_type_key(Lists[2])
  /\ get_type_key(Lists[1]) # get_type_key(Lists[3])
  /\ {Lists[1], Lists[2]} \subseteq ret.m["T"]
  /\ Lists[3] \notin ret.m["T"]

\* what a call on the store returns, as a value
as_value(r) ==
  IF r.st = "ok" THEN Ok(bindings(r))
  ELSE IF r.st = "none" THEN NoneR
  ELSE Raise(r.err)

\* C12: no matching operation modifies the substitution it is given:
\* after the call, matched, failed or raised, every dict and every variable
\* the store held before the call is as it was; and what the call returns
\* is what it returns when substitutions are values, so that an
\* alternative tried after a failed one starts from the substitution the
\* failed one started from
C12_SubstNotModified ==
  op = "match_var_against_type" =>
    /\ \A d \in 1..Len(args.subst.h.dicts) :
         /\ d <= Len(ret.h.dicts)
         /\ ret.h.dicts[d] = args.subst.h.dicts[d]
    /\ \A v \in 1..Len(args.subst.h.variables) :
         /\ v <= Len(ret.h.variables)
         /\ ret.h.variables[v] = args.subst.h.variables[v]
    /\ as_value(ret) = match_var_against_type(
                         args.var, args.other_type, as_value(args.subst))

\* C12 happens: the first member of the union binds T to the key of the
\* dict and fails on its value, in a copy that stays in the store; the
\* second member binds T to the value only, next to what T held
C12_Witness ==
  /\ op = "match_var_against_type"
  /\ args.var = Pinned(<<DictInstance(Instance("A", 1),
                                      Instance("B", 1))>>, 1)
  /\ args.other_type =
       Union(<<Dict(TypeParameter("T"), TInt), Dict(TA, TypeParameter("T"))>>)
  /\ bindings(args.subst) = [x \in {"T"} |-> {Instance("B", 1)}]
  /\ ret.st = "ok"
  /\ bindings(ret)["T"] = {Instance("B", 1)}
  /\ \E d \in 2..Len(ret.h.dicts) :
       /\ d # ret.ref
       /\ Instance("A", 1) \in ret.h.variables[ret.h.dicts[d]["T"]]

\* the members a union built from type_list is to have, each in a form that
\* forgets the order of the members of the unions inside it
RECURSIVE canonical(_)
canonical(t) ==
  IF t.kind = "UnionType"
    THEN [kind |-> "UnionType",
          members |-> {canonical(t.type_list[i]) :
                         i \in 1..Len(t.type_list)}]
  ELSE IF t.kind = "GenericType"
    THEN [kind |-> "GenericType", base_type |-> canonical(t.base_type),
          parameters |-> [i \in 1..Len(t.parameters) |->
                            canonical(t.parameters[i])]]
  ELSE t

RECURSIVE member_set(_)
member_set(type_list) ==
  IF Len(type_list) = 0 THEN {}
  ELSE (IF Head(type_list).kind = "UnionType"
          THEN member_set(Head(type_list).type_list)
        ELSE {canonical(Head(type_list))})
       \cup member_set(Tail(type_list))

\* the members of type_list, those of the unions in it in their place
RECURSIVE in_order(_)
in_order(type_list) ==
  IF Len(type_list) = 0 THEN <<>>
  ELSE (IF Head(type_list).kind = "UnionType"
          THEN in_order(Head(type_list).type_list)
        ELSE <<Head(type_list)>>) \o in_order(Tail(type_list))

\* position k of s is the first occurrence of its member
first_occurrence(s, k) ==
  \A j \in 1..(k - 1) : canonical(s[j]) # canonical(s[k])

\* C13: a union built from a non-empty list of types has a type_list with
\* no union in it and no member twice, the members in the order in which
\* they first occur; two unions are equal and have equal hashes exactly
\* when their sets of members are equal, whatever the order
C13_UnionFlattenedAndSetEqual ==
  (op = "UnionType" /\ Len(args.type_list) > 0) =>
    LET s == in_order(args.type_list)
        firsts == {k \in 1..Len(s) : first_occurrence(s, k)}
        nth(i) == Least({k \in firsts :
                           Cardinality({j \in firsts : j <= k}) = i})
    IN /\ ret.kind = "UnionType"
       /\ \A i \in 1..Len(ret.type_list) :
            ret.type_list[i].kind # "UnionType"
       /\ \A i, j \in 1..Len(ret.type_list) :
            i # j => ~py_eq(ret.type_list[i], ret.type_list[j])
       /\ Len(ret.type_list) = Cardinality(firsts)
       /\ \A i \in 1..Len(ret.type_list) : ret.type_list[i] = s[nth(i)]
       /\ \A other \in UnionTypes :
            (py_eq(ret, other) /\ py_hash(ret) = py_hash(other))
              <=> member_set(args.type_list) = member_set(other.type_list)

\* C13 happens: the union built from [A, UnionType([B, C]), A] is A, B, C
\* and equals, with the same hash, the one built from [C, B, A]
C13_Witness ==
  /\ op = "UnionType"
  /\ args.type_list =
       <<NamedType("A"),
         UnionType(<<NamedType("B"), NamedType("C")>>), NamedType("A")>>
  /\ ret.type_list = <<NamedType("A"), NamedType("B"), NamedType("C")>>
  /\ LET other == UnionType(<<NamedType("C"), NamedType("B"),
                              NamedType("A")>>)
     IN /\ ret # other
        /\ py_eq(ret, other)
        /\ py_hash(ret) = py_hash(other)

\* the declarations of the namespace of a node, each under the name Lookup
\* finds it by
namespace(self) ==
  IF self.kind = "TypeDeclUnit"
    THEN [i \in 1..Len(self.type_params) |->
            [name |-> TypeParameter_full_name(self.type_params[i]),
             item |-> self.type_params[i]]]
         \o [i \in 1..Len(self.constants \o self.functions \o self.classes
                            \o self.aliases) |->
              LET x == (self.constants \o self.functions \o self.classes
                          \o self.aliases)[i]
              IN [name |-> x.name, item |-> x]]
  ELSE [i \in 1..Len(self.methods \o self.constants) |->
          LET x == (self.methods \o self.constants)[i]
          IN [name |-> x.name, item |-> x]]

\* two distinct declarations of the namespace share the name
declared_twice(self, name) ==
  \E i, j \in 1..Len(namespace(self)) :
    /\ i # j
    /\ namespace(self)[i].name = name
    /\ namespace(self)[j].name = name
    /\ namespace(self)[i].item # namespace(self)[j].item

\* C14: when two distinct declarations share a name in the namespace of a
\* module or class, every Lookup of that name on the node, the first and
\* the later ones, fails with the duplicate-name error
C14_DuplicateNameAlwaysFails ==
  (/\ op \in {"TypeDeclUnit.Lookup", "Class.Lookup"}
   /\ declared_twice(node, args.name)) =>
    ret = Raise("AttributeError")

\* the node as it was before any Lookup
uncached(self) == [self EXCEPT !._name2item = Unset]

\* C15: every Lookup of a name on a node has the outcome of the first one,
\* the same declaration or the same error, whatever was looked up before
\* and whether the cache was built or not
C15_LookupOutcomeStable ==
  /\ op = "TypeDeclUnit.Lookup" =>
       ret = TypeDeclUnit_Lookup(uncached(node), args.name).ret
  /\ op = "Class.Lookup" =>
       ret = Class_Lookup(uncached(node), args.name).ret

====
